---- MODULE Spec2Model ----
(***************************************************************************)
(* Backtest page (apps/dsa-web/src/pages/BacktestPage.tsx) and its REST    *)
(* client (api/backtest.ts).  The page is a React function component: its  *)
(* state is the useState cells, every handler runs atomically (one event,  *)
(* one batched state update), and an `await` splits a handler in two       *)
(* steps: the one that issues the HTTP request and the one that runs when  *)
(* the request settles.  The server and the user are the environment.      *)
(*                                                                         *)
(* JavaScript values: a string is a sequence of one-character strings, an  *)
(* object is a record, an absent property is an absent record field.       *)
(***************************************************************************)
EXTENDS Integers, Sequences, FiniteSets, TLC

(* ------------------------------ bounds --------------------------------- *)
\* most fetchResults calls awaiting their response at once
MaxResultsInFlight == 2
\* most fetchPerformance calls awaiting a response at once
MaxPerfInFlight == 2
\* the largest row count the server reports
MaxTotal == 21
\* most events (input changes, key presses, clicks) the user makes
MaxUserEvents == 2

(* ------------------------- program constants --------------------------- *)
pageSize == 20
DefaultPage == 1
DefaultLimit == 20
NotFound == 404

(* --------------------------- JavaScript values ------------------------- *)
\* `null` and `undefined`; neither is a character sequence nor a data record
null == [null |-> TRUE]
undefined == <<"undefined">>

\* truthiness of a string-or-undefined value: '' and undefined are falsy
Truthy(s) == s # undefined /\ s # <<>>

\* `s || undefined`
OrUndefined(s) == IF Truthy(s) THEN s ELSE undefined

RECURSIVE TrimStart(_)
TrimStart(s) ==
  IF s # <<>> /\ Head(s) = " " THEN TrimStart(Tail(s)) ELSE s

RECURSIVE TrimEnd(_)
TrimEnd(s) ==
  IF s # <<>> /\ s[Len(s)] = " " THEN TrimEnd(SubSeq(s, 1, Len(s) - 1)) ELSE s

\* String.prototype.trim
Trim(s) == TrimEnd(TrimStart(s))

UpperChar(c) == CASE c = "a" -> "A" [] c = "b" -> "B" [] OTHER -> c

\* String.prototype.toUpperCase
ToUpperCase(s) == [i \in 1..Len(s) |-> UpperChar(s[i])]

\* the texts an input event carries: empty, blank, a code, the same code in
\* other case with spaces around it, another code
TypedTexts == { << >>, << " " >>, << "A" >>, << " ", "a", " " >>, << "b" >> }

\* encodeURIComponent, on the characters of the filter input
EncodeChar(c) == IF c = " " THEN <<"%", "2", "0">> ELSE <<c>>

RECURSIVE EncodeURIComponent(_)
EncodeURIComponent(s) ==
  IF s = <<>> THEN <<>> ELSE EncodeChar(Head(s)) \o EncodeURIComponent(Tail(s))

\* the object {}
EmptyObject == [x \in {} |-> TRUE]

\* r with property k set to v
With(r, k, v) == [x \in DOMAIN r \cup {k} |-> IF x = k THEN v ELSE r[x]]

(* ------------------------------ transport ------------------------------ *)
\* what a request can fail with: axios errors carrying a response (with or
\* without a status), an Error without a response, a plain object carrying a
\* 404 response, and a thrown value that is not an object
Err404 == [object |-> TRUE, isError |-> TRUE, message |-> "Request failed with status code 404",
           response |-> [status |-> NotFound]]
Err500 == [object |-> TRUE, isError |-> TRUE, message |-> "Request failed with status code 500",
           response |-> [status |-> 500]]
ErrNoStatus == [object |-> TRUE, isError |-> TRUE, message |-> "",
                response |-> [statusText |-> "unknown"]]
ErrNetwork == [object |-> TRUE, isError |-> TRUE, message |-> "Network Error"]
ErrPlain404 == [object |-> TRUE, isError |-> FALSE, response |-> [status |-> NotFound]]
ErrThrown == [object |-> FALSE, isError |-> FALSE]
Errors == {Err404, Err500, ErrNoStatus, ErrNetwork, ErrPlain404, ErrThrown}

\* the two ways an HTTP request settles
HttpOk(data) == [ok |-> TRUE, data |-> data]
HttpFail(err) == [ok |-> FALSE, error |-> err]

\* the two ways a promise settles
Resolved(v) == [resolved |-> TRUE, value |-> v]
Rejected(e) == [resolved |-> FALSE, error |-> e]

(* ----------------------------- ./utils --------------------------------- *)
CamelKey(k) ==
  CASE k = "win_rate_pct" -> "winRatePct"
    [] k = "total_evaluations" -> "totalEvaluations"
    [] k = "analysis_history_id" -> "analysisHistoryId"
    [] OTHER -> k

\* toCamelCase: the same object with every key in camel case
ToCamelCase(obj) ==
  [k \in {CamelKey(f) : f \in DOMAIN obj} |->
     obj[CHOOSE f \in DOMAIN obj : CamelKey(f) = k]]

(* --------------------------- api/backtest.ts --------------------------- *)
\* is property k of params present and truthy?  (string, boolean, number)
TruthyString(params, k) == k \in DOMAIN params /\ Truthy(params[k])
TruthyBoolean(params, k) == k \in DOMAIN params /\ params[k]
TruthyNumber(params, k) == k \in DOMAIN params /\ params[k] # 0

\* r, with property k set to v when cond holds
WithIf(cond, r, k, v) == IF cond THEN With(r, k, v) ELSE r

\* RunRequestData sending the limit whenever the caller passed one
RunRequestDataAnyLimit(params) ==
  LET d1 == WithIf(TruthyString(params, "code"), EmptyObject, "code", params["code"])
      d2 == WithIf(TruthyBoolean(params, "force"), d1, "force", params["force"])
      d3 == WithIf(TruthyNumber(params, "evalWindowDays"), d2, "eval_window_days",
                   params["evalWindowDays"])
  IN WithIf("limit" \in DOMAIN params, d3, "limit", params["limit"])

\* run: the request body built from params
RunRequestData(params) ==
  LET d1 == WithIf(TruthyString(params, "code"), EmptyObject, "code", params["code"])
      d2 == WithIf(TruthyBoolean(params, "force"), d1, "force", params["force"])
      d3 == WithIf(TruthyNumber(params, "evalWindowDays"), d2, "eval_window_days",
                   params["evalWindowDays"])
  IN WithIf(TruthyNumber(params, "limit"), d3, "limit", params["limit"])

\* run: the promise's outcome for an HTTP outcome
run(http) ==
  IF http.ok THEN Resolved(ToCamelCase(http.data)) ELSE Rejected(http.error)

\* GetResultsQueryParams sending the code whenever the caller passed one
GetResultsQueryParamsAnyCode(params) ==
  LET page == IF "page" \in DOMAIN params THEN params.page ELSE DefaultPage
      limit == IF "limit" \in DOMAIN params THEN params.limit ELSE DefaultLimit
      queryParams == [page |-> page, limit |-> limit]
  IN IF "code" \in DOMAIN params
       THEN With(queryParams, "code", params.code)
       ELSE queryParams

\* getResults: the query parameters built from params
GetResultsQueryParams(params) ==
  LET page == IF "page" \in DOMAIN params THEN params.page ELSE DefaultPage
      limit == IF "limit" \in DOMAIN params THEN params.limit ELSE DefaultLimit
      queryParams == [page |-> page, limit |-> limit]
  IN IF "code" \in DOMAIN params /\ Truthy(params.code)
       THEN With(queryParams, "code", params.code)
       ELSE queryParams

\* getResults: the promise's outcome for an HTTP outcome
getResults(http) ==
  IF http.ok
    THEN LET data == ToCamelCase(http.data)
         IN Resolved([total |-> data.total, page |-> data.page, limit |-> data.limit,
                      items |-> [i \in 1..Len(data.items) |-> ToCamelCase(data.items[i])]])
    ELSE Rejected(http.error)

\* the catch clause of the two performance getters: is err a 404 response?
IsNotFound(err) ==
  /\ err.object
  /\ "response" \in DOMAIN err
  /\ "status" \in DOMAIN err.response
  /\ err.response.status = NotFound

\* getOverallPerformance taking every error that carries a response for "no data"
getOverallPerformanceAnyResponse(http) ==
  IF http.ok THEN Resolved(ToCamelCase(http.data))
  ELSE IF http.error.object /\ "response" \in DOMAIN http.error THEN Resolved(null)
  ELSE Rejected(http.error)

\* getOverallPerformance: the promise's outcome for an HTTP outcome
getOverallPerformance(http) ==
  IF http.ok THEN Resolved(ToCamelCase(http.data))
  ELSE IF IsNotFound(http.error) THEN Resolved(null)
  ELSE Rejected(http.error)

\* getStockPerformance without its catch clause
getStockPerformanceRethrow(http) ==
  IF http.ok THEN Resolved(ToCamelCase(http.data)) ELSE Rejected(http.error)

\* getStockPerformance: the promise's outcome for an HTTP outcome
getStockPerformance(http) ==
  IF http.ok THEN Resolved(ToCamelCase(http.data))
  ELSE IF IsNotFound(http.error) THEN Resolved(null)
  ELSE Rejected(http.error)


(* ------------------------------ the server ----------------------------- *)
\* row counts the server can report for a query
Totals == {0, MaxTotal}

\* body of GET /api/v1/backtest/results for a query, when the server holds
\* total rows: the requested page is echoed, and it has rows if it exists
ResultsWire(query, total) ==
  [total |-> total, page |-> query.page, limit |-> query.limit,
   items |-> IF (query.page - 1) * query.limit < total
               THEN << [analysis_history_id |-> query.page,
                        code |-> IF "code" \in DOMAIN query THEN query.code ELSE <<"A">>] >>
               ELSE << >>]

\* body of GET /api/v1/backtest/performance
OverallWire == [win_rate_pct |-> 50, total_evaluations |-> 1]

\* body of GET /api/v1/backtest/performance/{code}
StockWire(code) == [code |-> code, win_rate_pct |-> 50, total_evaluations |-> 1]

\* body of POST /api/v1/backtest/run
RunWire == [processed |-> 1, saved |-> 1, completed |-> 1, insufficient |-> 0, errors |-> 0]

\* the failures the page is run against: an Error carrying a 404 response and a
\* thrown value that is no Error take every branch of the page's catch clauses
PageErrors == {Err404, ErrThrown}
Failures == {HttpFail(e) : e \in PageErrors}
ResultsHttp(query) == {HttpOk(ResultsWire(query, t)) : t \in Totals} \cup Failures
OverallHttp == {HttpOk(OverallWire)} \cup Failures
StockHttp(code) == {HttpOk(StockWire(code))} \cup Failures
RunHttp == {HttpOk(RunWire)} \cup Failures

(* ------------------------- pages/BacktestPage.tsx ---------------------- *)
VARIABLES
  codeFilter,        \* useState(''): the text of the filter input
  isRunning,         \* useState(false)
  runResult,         \* useState(null): the run summary
  runError,          \* useState(null): the run's error message
  results,           \* useState([]): the rows on display
  totalResults,      \* useState(0)
  currentPage,       \* useState(1)
  isLoadingResults,  \* useState(false)
  overallPerf,       \* useState(null)
  stockPerf,         \* useState(null)
  isLoadingPerf,     \* useState(false)
  mounted,           \* has the initial-load effect run?
  resultsCalls,      \* fetchResults calls awaiting getResults, oldest first
  perfCalls,         \* fetchPerformance calls awaiting a getter, oldest first
  runCalls,          \* handleRun calls awaiting run, oldest first
  lastEvent,         \* history: the handler, continuation or client call that ran last
  issued,            \* history: the HTTP requests the last step issued
  activeCode,        \* history: code of the last mount, filter or run-refresh fetch
  prevView,          \* history: the results view before the last handler that fetched results
  prevPerf,          \* history: the performance state before the last fetchPerformance call
  resultsQuiet,      \* history: no getResults has settled since the last fetchResults call
  perfQuiet,         \* history: since the last fetchPerformance call, no older call has
                     \*          written the performance state or finished
  userEvents         \* history: the number of user events handled

view == <<results, totalResults, currentPage>>
perf == <<overallPerf, stockPerf>>
runState == <<isRunning, runResult, runError>>
resultsFamily == <<resultsCalls, isLoadingResults, prevView, resultsQuiet>>
perfFamily == <<perfCalls, isLoadingPerf, prevPerf, perfQuiet>>
vars == <<codeFilter, isRunning, runResult, runError, results, totalResults,
          currentPage, isLoadingResults, overallPerf, stockPerf, isLoadingPerf,
          mounted, resultsCalls, perfCalls, runCalls, lastEvent, issued, activeCode,
          prevView, prevPerf, resultsQuiet, perfQuiet, userEvents>>

\* a string held in a string-or-null state cell
JsString(s) == [string |-> s]

\* s without its i-th element
Remove(s, i) == [j \in 1..(Len(s) - 1) |-> IF j < i THEN s[j] ELSE s[j + 1]]

\* Math.ceil(totalResults / pageSize)
totalPages == (totalResults + pageSize - 1) \div pageSize

Init ==
  /\ codeFilter = << >>
  /\ isRunning = FALSE
  /\ runResult = null
  /\ runError = null
  /\ results = << >>
  /\ totalResults = 0
  /\ currentPage = 1
  /\ isLoadingResults = FALSE
  /\ overallPerf = null
  /\ stockPerf = null
  /\ isLoadingPerf = FALSE
  /\ mounted = FALSE
  /\ resultsCalls = << >>
  /\ perfCalls = << >>
  /\ runCalls = << >>
  /\ lastEvent = [type |-> "construct"]
  /\ issued = << >>
  /\ activeCode = undefined
  /\ prevView = view
  /\ prevPerf = perf
  /\ resultsQuiet = TRUE
  /\ perfQuiet = TRUE
  /\ userEvents = 0

\* the getResults request fetchResults(page, code) sends
ResultsRequest(page, code) ==
  [api |-> "getResults",
   query |-> GetResultsQueryParams([code |-> OrUndefined(code), page |-> page,
                                    limit |-> pageSize])]

\* the calls in flight, none of them the latest any more
Older(callSeq) == [j \in 1..Len(callSeq) |-> [callSeq[j] EXCEPT !.latest = FALSE]]

\* FetchResults without setIsLoadingResults(true)
FetchResultsNoLoading(page, code) ==
  /\ Len(resultsCalls) < MaxResultsInFlight
  /\ UNCHANGED isLoadingResults
  /\ resultsCalls' = Append(Older(resultsCalls),
                            [query |-> ResultsRequest(page, code).query,
                             latest |-> TRUE, overtaken |-> FALSE])
  /\ prevView' = view
  /\ resultsQuiet' = TRUE

\* fetchResults(page, code) up to its await.  History fields of a call: latest,
\* no fetchResults call was made after it; overtaken, a later call has resolved.
FetchResults(page, code) ==
  /\ Len(resultsCalls) < MaxResultsInFlight
  /\ isLoadingResults' = TRUE
  /\ resultsCalls' = Append(Older(resultsCalls),
                            [query |-> ResultsRequest(page, code).query,
                             latest |-> TRUE, overtaken |-> FALSE])
  /\ prevView' = view
  /\ resultsQuiet' = TRUE

\* fetchPerformance(code) up to its first await.  got is the local `overall`.
FetchPerformance(code) ==
  /\ Len(perfCalls) < MaxPerfInFlight
  /\ isLoadingPerf' = TRUE
  /\ perfCalls' = Append(Older(perfCalls),
                         [phase |-> "overall", code |-> code, got |-> null,
                          latest |-> TRUE])
  /\ prevPerf' = perf
  /\ perfQuiet' = TRUE

\* fetchResults(page, code); fetchPerformance(code)
FetchBoth(page, code) ==
  /\ FetchResults(page, code)
  /\ FetchPerformance(code)
  /\ issued' = << ResultsRequest(page, code), [api |-> "getOverallPerformance"] >>
  /\ activeCode' = OrUndefined(code)

\* a user event reaches the mounted page
UserEvent ==
  /\ mounted
  /\ userEvents < MaxUserEvents
  /\ userEvents' = userEvents + 1

\* Mount starting the performance fetch only after the results fetch is over
MountResultsFirst ==
  /\ ~mounted
  /\ mounted' = TRUE
  /\ FetchResults(DefaultPage, undefined)
  /\ issued' = << ResultsRequest(DefaultPage, undefined) >>
  /\ activeCode' = undefined
  /\ lastEvent' = [type |-> "mount"]
  /\ UNCHANGED <<codeFilter, runState, view, perf, perfFamily, runCalls, userEvents>>

\* the initial-load effect
Mount ==
  /\ ~mounted
  /\ mounted' = TRUE
  /\ FetchBoth(DefaultPage, undefined)
  /\ lastEvent' = [type |-> "mount"]
  /\ UNCHANGED <<codeFilter, runState, view, perf, runCalls, userEvents>>

\* the onChange handler of the filter input
onChange(text) ==
  /\ codeFilter' = ToUpperCase(text)
  /\ lastEvent' = [type |-> "change"]
  /\ issued' = << >>
  /\ UNCHANGED <<runState, view, perf, mounted, resultsFamily, perfFamily, runCalls,
                 activeCode>>

\* the user changes the text of the filter input
SetCodeFilter(text) ==
  /\ UserEvent
  /\ ~isRunning
  /\ onChange(text)

\* FilterCode without the trim
FilterCodeUntrimmed(text) == OrUndefined(text)

\* the code handleFilter, handleRun and handlePageChange pass on
FilterCode(text) == OrUndefined(Trim(text))

\* handleFilter
handleFilter ==
  /\ currentPage' = 1
  /\ FetchBoth(1, FilterCode(codeFilter))
  /\ lastEvent' = [type |-> "handleFilter", codeFilter |-> codeFilter]
  /\ UNCHANGED <<codeFilter, runState, results, totalResults, perf, mounted, runCalls>>

\* onClick of the Filter button
ClickFilter ==
  /\ UserEvent
  /\ ~isLoadingResults
  /\ handleFilter

\* keys the user presses in the filter input
Keys == {"Enter", "Tab"}

\* onKeyDown of the filter input
handleKeyDown(key) ==
  /\ UserEvent
  /\ ~isRunning
  /\ IF key = "Enter"
       THEN handleFilter
       ELSE /\ lastEvent' = [type |-> "key"]
            /\ issued' = << >>
            /\ UNCHANGED <<codeFilter, runState, view, perf, mounted, resultsFamily,
                           perfFamily, runCalls, activeCode>>

\* the code handlePageChange sends
PageChangeCode == FilterCode(codeFilter)

\* handlePageChange refreshing the performance cards as well
handlePageChangeRefetchingBoth(page) ==
  /\ UserEvent
  /\ ~isLoadingResults
  /\ results # << >>
  /\ FetchBoth(page, PageChangeCode)
  /\ lastEvent' = [type |-> "handlePageChange", page |-> page]
  /\ UNCHANGED <<codeFilter, runState, view, perf, mounted, runCalls>>

\* handlePageChange, called by the Pagination control under the results table
handlePageChange(page) ==
  /\ UserEvent
  /\ ~isLoadingResults
  /\ results # << >>
  /\ FetchResults(page, PageChangeCode)
  /\ issued' = << ResultsRequest(page, PageChangeCode) >>
  /\ lastEvent' = [type |-> "handlePageChange", page |-> page]
  /\ UNCHANGED <<codeFilter, runState, view, perf, mounted, perfFamily, runCalls,
                 activeCode>>

\* SetResults dropping the response of a call that a later call has overtaken
SetResultsUnlessOvertaken(call, response) ==
  IF call.overtaken
    THEN [results |-> results, totalResults |-> totalResults, currentPage |-> currentPage]
    ELSE [results |-> response.items, totalResults |-> response.total,
          currentPage |-> response.page]

\* the state setters of fetchResults after getResults resolved with response
SetResults(call, response) ==
  [results |-> response.items, totalResults |-> response.total,
   currentPage |-> response.page]

\* FetchResultsSettle showing the failure of getResults in the run's error banner
FetchResultsSettleShowingError(i, http) ==
  LET call == resultsCalls[i]
      outcome == getResults(http)
      others == [j \in 1..Len(resultsCalls) |->
                   [resultsCalls[j] EXCEPT
                      !.overtaken = @ \/ (outcome.resolved /\ j < i)]]
  IN /\ IF outcome.resolved
          THEN LET set == SetResults(call, outcome.value)
               IN /\ results' = set.results
                  /\ totalResults' = set.totalResults
                  /\ currentPage' = set.currentPage
                  /\ UNCHANGED runError
          ELSE /\ UNCHANGED view
               /\ runError' = JsString("Failed to fetch backtest results")
     /\ isLoadingResults' = FALSE
     /\ resultsCalls' = Remove(others, i)
     /\ resultsQuiet' = FALSE
     /\ lastEvent' = IF outcome.resolved
                       THEN [type |-> "fetchResults.resolved", call |-> call,
                             response |-> outcome.value]
                       ELSE [type |-> "fetchResults.rejected", call |-> call,
                             quiet |-> resultsQuiet]
     /\ issued' = << >>
     /\ UNCHANGED <<codeFilter, isRunning, runResult, perf, mounted, perfFamily,
                    runCalls, activeCode, prevView, userEvents>>

\* fetchResults from its await on: getResults settles for the i-th call
FetchResultsSettle(i, http) ==
  LET call == resultsCalls[i]
      outcome == getResults(http)
      others == [j \in 1..Len(resultsCalls) |->
                   [resultsCalls[j] EXCEPT
                      !.overtaken = @ \/ (outcome.resolved /\ j < i)]]
  IN /\ IF outcome.resolved
          THEN LET set == SetResults(call, outcome.value)
               IN /\ results' = set.results
                  /\ totalResults' = set.totalResults
                  /\ currentPage' = set.currentPage
          ELSE UNCHANGED view
     /\ isLoadingResults' = FALSE
     /\ resultsCalls' = Remove(others, i)
     /\ resultsQuiet' = FALSE
     /\ lastEvent' = IF outcome.resolved
                       THEN [type |-> "fetchResults.resolved", call |-> call,
                             response |-> outcome.value]
                       ELSE [type |-> "fetchResults.rejected", call |-> call,
                             quiet |-> resultsQuiet]
     /\ issued' = << >>
     /\ UNCHANGED <<codeFilter, runState, perf, mounted, perfFamily, runCalls,
                    activeCode, prevView, userEvents>>

\* SetOverall clearing the overall metrics when the getter rejects
SetOverallClearingOnReject(call, outcome) ==
  IF outcome.resolved
    THEN [overallPerf |-> outcome.value,
          stockPerf |-> IF Truthy(call.code) THEN stockPerf ELSE null]
    ELSE [overallPerf |-> null, stockPerf |-> stockPerf]

\* the state setters of fetchPerformance once getOverallPerformance has settled
SetOverall(call, outcome) ==
  IF outcome.resolved
    THEN [overallPerf |-> outcome.value,
          stockPerf |-> IF Truthy(call.code) THEN stockPerf ELSE null]
    ELSE [overallPerf |-> overallPerf, stockPerf |-> stockPerf]

\* fetchPerformance from its first await on: getOverallPerformance settles
FetchPerformanceOverall(i, http) ==
  LET call == perfCalls[i]
      outcome == getOverallPerformance(http)
      goesOn == outcome.resolved /\ Truthy(call.code)
      set == SetOverall(call, outcome)
  IN /\ call.phase = "overall"
     /\ overallPerf' = set.overallPerf
     /\ stockPerf' = set.stockPerf
     /\ IF goesOn
          THEN /\ perfCalls' = [perfCalls EXCEPT ![i].phase = "stock",
                                                 ![i].got = outcome.value]
               /\ issued' = << [api |-> "getStockPerformance",
                                path |-> EncodeURIComponent(call.code)] >>
               /\ UNCHANGED isLoadingPerf
          ELSE /\ perfCalls' = Remove(perfCalls, i)
               /\ issued' = << >>
               /\ isLoadingPerf' = FALSE
     /\ perfQuiet' = (perfQuiet /\ call.latest)
     /\ lastEvent' = IF outcome.resolved
                       THEN [type |-> "fetchPerformance.overall.resolved", call |-> call]
                       ELSE [type |-> "fetchPerformance.overall.rejected", call |-> call,
                             quiet |-> perfQuiet]
     /\ UNCHANGED <<codeFilter, runState, view, mounted, resultsFamily, runCalls,
                    activeCode, prevPerf, userEvents>>

\* SetStock emptying the per-stock card when getStockPerformance rejects
SetStockClearingOnReject(call, outcome) ==
  IF outcome.resolved THEN outcome.value ELSE null

\* the state setter of fetchPerformance once getStockPerformance has settled
SetStock(call, outcome) ==
  IF outcome.resolved THEN outcome.value ELSE stockPerf

\* fetchPerformance from its second await on: getStockPerformance settles
FetchPerformanceStock(i, http) ==
  LET call == perfCalls[i]
      outcome == getStockPerformance(http)
  IN /\ call.phase = "stock"
     /\ stockPerf' = SetStock(call, outcome)
     /\ UNCHANGED overallPerf
     /\ perfCalls' = Remove(perfCalls, i)
     /\ isLoadingPerf' = FALSE
     /\ perfQuiet' = (perfQuiet /\ call.latest)
     /\ lastEvent' = IF outcome.resolved
                       THEN [type |-> "fetchPerformance.stock.resolved", call |-> call]
                       ELSE [type |-> "fetchPerformance.stock.rejected", call |-> call,
                             quiet |-> perfQuiet]
     /\ issued' = << >>
     /\ UNCHANGED <<codeFilter, runState, view, mounted, resultsFamily, runCalls,
                    activeCode, prevPerf, userEvents>>

\* handleRun without setRunError(null)
handleRunKeepingError ==
  LET body == RunRequestData([code |-> FilterCode(codeFilter)])
  IN /\ UserEvent
     /\ ~isRunning
     /\ isRunning' = TRUE
     /\ runResult' = null
     /\ UNCHANGED runError
     /\ runCalls' = Append(runCalls, [codeFilter |-> codeFilter, body |-> body])
     /\ issued' = << [api |-> "run", body |-> body] >>
     /\ lastEvent' = [type |-> "handleRun"]
     /\ UNCHANGED <<codeFilter, view, perf, mounted, resultsFamily, perfFamily,
                    activeCode>>

\* handleRun behind a Run button that is never disabled
handleRunWhileRunning ==
  LET body == RunRequestData([code |-> FilterCode(codeFilter)])
  IN /\ UserEvent
     /\ isRunning' = TRUE
     /\ runResult' = null
     /\ runError' = null
     /\ runCalls' = Append(runCalls, [codeFilter |-> codeFilter, body |-> body])
     /\ issued' = << [api |-> "run", body |-> body] >>
     /\ lastEvent' = [type |-> "handleRun"]
     /\ UNCHANGED <<codeFilter, view, perf, mounted, resultsFamily, perfFamily,
                    activeCode>>

\* handleRun up to its await; the continuation keeps this render's codeFilter
handleRun ==
  LET body == RunRequestData([code |-> FilterCode(codeFilter)])
  IN /\ UserEvent
     /\ ~isRunning
     /\ isRunning' = TRUE
     /\ runResult' = null
     /\ runError' = null
     /\ runCalls' = Append(runCalls, [codeFilter |-> codeFilter, body |-> body])
     /\ issued' = << [api |-> "run", body |-> body] >>
     /\ lastEvent' = [type |-> "handleRun"]
     /\ UNCHANGED <<codeFilter, view, perf, mounted, resultsFamily, perfFamily,
                    activeCode>>

\* the message handleRun shows for a rejected run
RunErrorMessage(err) ==
  IF err.isError THEN JsString(err.message) ELSE JsString("Backtest failed")

\* HandleRunResolved refreshing without the code
HandleRunResolvedNoCode(call, response) ==
  /\ runResult' = response
  /\ UNCHANGED runError
  /\ FetchBoth(1, undefined)

\* handleRun from its await on, when run resolved
HandleRunResolved(call, response) ==
  /\ runResult' = response
  /\ UNCHANGED runError
  /\ FetchBoth(1, FilterCode(call.codeFilter))

\* HandleRunRejected with the refresh moved to the finally clause
HandleRunRejectedRefreshing(call, err) ==
  /\ runError' = RunErrorMessage(err)
  /\ UNCHANGED runResult
  /\ FetchBoth(1, FilterCode(call.codeFilter))

\* handleRun from its await on, when run rejected
HandleRunRejected(call, err) ==
  /\ runError' = RunErrorMessage(err)
  /\ UNCHANGED runResult
  /\ issued' = << >>
  /\ UNCHANGED <<resultsFamily, perfFamily, activeCode>>

\* HandleRunSettle with setIsRunning(false) at the end of the try block instead
\* of the finally clause
HandleRunSettleNoFinally(i, http) ==
  LET call == runCalls[i]
      outcome == run(http)
  IN /\ IF outcome.resolved
          THEN HandleRunResolved(call, outcome.value)
          ELSE HandleRunRejected(call, outcome.error)
     /\ isRunning' = ~outcome.resolved
     /\ runCalls' = Remove(runCalls, i)
     /\ lastEvent' = [type |-> IF outcome.resolved THEN "handleRun.resolved"
                                                   ELSE "handleRun.rejected",
                      call |-> call]
     /\ UNCHANGED <<codeFilter, view, perf, mounted, userEvents>>

\* handleRun from its await on: run settles for the i-th call
HandleRunSettle(i, http) ==
  LET call == runCalls[i]
      outcome == run(http)
  IN /\ IF outcome.resolved
          THEN HandleRunResolved(call, outcome.value)
          ELSE HandleRunRejected(call, outcome.error)
     /\ isRunning' = FALSE
     /\ runCalls' = Remove(runCalls, i)
     /\ lastEvent' = [type |-> IF outcome.resolved THEN "handleRun.resolved"
                                                   ELSE "handleRun.rejected",
                      call |-> call]
     /\ UNCHANGED <<codeFilter, view, perf, mounted, userEvents>>

Next ==
  \/ Mount
  \/ \E text \in TypedTexts : SetCodeFilter(text)
  \/ ClickFilter
  \/ \E key \in Keys : handleKeyDown(key)
  \/ \E page \in 1..totalPages : handlePageChange(page)
  \/ handleRun
  \/ \E i \in 1..Len(resultsCalls) : \E http \in ResultsHttp(resultsCalls[i].query) :
       FetchResultsSettle(i, http)
  \/ \E i \in 1..Len(perfCalls) : \E http \in OverallHttp :
       FetchPerformanceOverall(i, http)
  \/ \E i \in 1..Len(perfCalls) : \E http \in StockHttp(perfCalls[i].code) :
       FetchPerformanceStock(i, http)
  \/ \E i \in 1..Len(runCalls) : \E http \in RunHttp : HandleRunSettle(i, http)

Spec == Init /\ [][Next]_vars

\* every HTTP request in flight is answered in the end: the continuation of an
\* await runs once its promise has settled
RequestsSettle ==
  /\ WF_vars(\E i \in 1..Len(resultsCalls) :
               \E http \in ResultsHttp(resultsCalls[i].query) : FetchResultsSettle(i, http))
  /\ WF_vars(\E i \in 1..Len(perfCalls) :
               \E http \in OverallHttp : FetchPerformanceOverall(i, http))
  /\ WF_vars(\E i \in 1..Len(perfCalls) :
               \E http \in StockHttp(perfCalls[i].code) : FetchPerformanceStock(i, http))
  /\ WF_vars(\E i \in 1..Len(runCalls) : \E http \in RunHttp : HandleRunSettle(i, http))

\* the page when every request is answered; the user stops after MaxUserEvents
FairSpec == Spec /\ RequestsSettle

(* ------------------- a session of filter submissions ------------------- *)
\* most events the user makes in a session of typing a code and pressing Enter
MaxFilterEvents == 4

\* the codes the user filters on in such a session
FilterTexts == { << "A" >>, << "b" >> }

\* an event of the session reaches the mounted page
FilterEvent ==
  /\ mounted
  /\ userEvents < MaxFilterEvents
  /\ userEvents' = userEvents + 1

\* the user changes the text of the filter input
TypeFilter(text) ==
  /\ FilterEvent
  /\ ~isRunning
  /\ onChange(text)

\* the user presses Enter in the filter input
PressEnter ==
  /\ FilterEvent
  /\ ~isRunning
  /\ handleFilter

\* what a results request gets in such a session: the server holds no rows
EmptyResultsHttp(query) == {HttpOk(ResultsWire(query, 0))}

\* the page under a user who only types codes and presses Enter
NextFilter ==
  \/ Mount
  \/ \E text \in FilterTexts : TypeFilter(text)
  \/ PressEnter
  \/ \E i \in 1..Len(resultsCalls) : \E http \in EmptyResultsHttp(resultsCalls[i].query) :
       FetchResultsSettle(i, http)
  \/ \E i \in 1..Len(perfCalls) : \E http \in OverallHttp :
       FetchPerformanceOverall(i, http)
  \/ \E i \in 1..Len(perfCalls) : \E http \in StockHttp(perfCalls[i].code) :
       FetchPerformanceStock(i, http)

SpecFilter == Init /\ [][NextFilter]_vars

(* --------------------- the client called on its own -------------------- *)
\* r1 and r2 in one object
Merge(r1, r2) ==
  [x \in DOMAIN r1 \cup DOMAIN r2 |-> IF x \in DOMAIN r1 THEN r1[x] ELSE r2[x]]

\* the objects with property k absent or set to one of values
Optional(k, values) == {EmptyObject} \cup {With(EmptyObject, k, v) : v \in values}

\* arguments of run and of getResults
RunParams ==
  {Merge(Merge(c, f), Merge(e, l)) :
     c \in Optional("code", {undefined, << >>, <<"A">>}),
     f \in Optional("force", BOOLEAN),
     e \in Optional("evalWindowDays", {0, 5}),
     l \in Optional("limit", {0, 10})}
GetResultsParams ==
  {Merge(c, Merge(pg, l)) :
     c \in Optional("code", {undefined, << >>, <<"A">>}),
     pg \in Optional("page", {1, 2}),
     l \in Optional("limit", {20, 50})}
StockCodes == {<<"A">>, <<"B">>, <<"A", " ", "B">>}

AnyFailure == {HttpFail(e) : e \in Errors}

\* a call of the client leaves the page alone
ApiFrame ==
  UNCHANGED <<codeFilter, runState, view, perf, mounted, resultsFamily, perfFamily,
              runCalls, activeCode, userEvents>>

ApiRun(params, http) ==
  /\ issued' = << [api |-> "run", body |-> RunRequestData(params)] >>
  /\ lastEvent' = [type |-> "run", params |-> params, http |-> http,
                   outcome |-> run(http)]
  /\ ApiFrame

ApiGetResults(params, http) ==
  /\ issued' = << [api |-> "getResults", query |-> GetResultsQueryParams(params)] >>
  /\ lastEvent' = [type |-> "getResults", params |-> params, http |-> http,
                   outcome |-> getResults(http)]
  /\ ApiFrame

ApiGetOverallPerformance(http) ==
  /\ issued' = << [api |-> "getOverallPerformance"] >>
  /\ lastEvent' = [type |-> "getOverallPerformance", http |-> http,
                   outcome |-> getOverallPerformance(http)]
  /\ ApiFrame

ApiGetStockPerformance(code, http) ==
  /\ issued' = << [api |-> "getStockPerformance", path |-> EncodeURIComponent(code)] >>
  /\ lastEvent' = [type |-> "getStockPerformance", code |-> code, http |-> http,
                   outcome |-> getStockPerformance(http)]
  /\ ApiFrame

NextApi ==
  \/ \E params \in RunParams : \E http \in {HttpOk(RunWire)} \cup AnyFailure :
       ApiRun(params, http)
  \/ \E params \in GetResultsParams :
       \E http \in {HttpOk(ResultsWire(GetResultsQueryParams(params), t)) : t \in Totals}
                     \cup AnyFailure :
         ApiGetResults(params, http)
  \/ \E http \in {HttpOk(OverallWire)} \cup AnyFailure : ApiGetOverallPerformance(http)
  \/ \E code \in StockCodes : \E http \in {HttpOk(StockWire(code))} \cup AnyFailure :
       ApiGetStockPerformance(code, http)

SpecApi == Init /\ [][NextApi]_vars

(* ----------------------------- properties ------------------------------ *)
PerformanceGetters == {"getOverallPerformance", "getStockPerformance"}
ClientCalls == PerformanceGetters \cup {"run", "getResults"}

\* does the error carry a response with status 404?
Carries404(err) ==
  /\ "response" \in DOMAIN err
  /\ "status" \in DOMAIN err.response
  /\ err.response.status = 404

\* C1: a performance getter whose request fails with an error carrying response
\* status 404 resolves with null; it does not reject.
C1_NotFoundResolvesNull ==
  (/\ lastEvent.type \in PerformanceGetters
   /\ ~lastEvent.http.ok
   /\ Carries404(lastEvent.http.error))
  => lastEvent.outcome = [resolved |-> TRUE, value |-> null]

C1_Witness ==
  /\ lastEvent.type = "getStockPerformance"
  /\ lastEvent.code = <<"A", " ", "B">>
  /\ lastEvent.http = [ok |-> FALSE, error |-> Err404]
  /\ lastEvent.outcome.resolved
  /\ lastEvent.outcome.value = null

\* C2: every failure but a 404 on a performance getter is passed on: the call
\* rejects with the error the request failed with, also for a 404 on run and
\* on getResults.
C2_OtherFailuresRejectUnchanged ==
  (/\ lastEvent.type \in ClientCalls
   /\ ~lastEvent.http.ok
   /\ ~(lastEvent.type \in PerformanceGetters /\ Carries404(lastEvent.http.error)))
  => lastEvent.outcome = [resolved |-> FALSE, error |-> lastEvent.http.error]

C2_Witness ==
  /\ lastEvent.type = "getResults"
  /\ lastEvent.http = [ok |-> FALSE, error |-> Err404]
  /\ ~lastEvent.outcome.resolved
  /\ lastEvent.outcome.error = Err404

\* the code a getResults request carries, undefined when it carries none
SentCode(request) ==
  IF "code" \in DOMAIN request.query THEN request.query.code ELSE undefined

\* the trimmed text as the code of a request: none when the text is blank
TrimmedCode(text) == IF Trim(text) = << >> THEN undefined ELSE Trim(text)

\* the last step issued one results request for this page and code and began
\* one performance fetch for this code
RefreshedWith(page, code) ==
  /\ Len(issued) = 2
  /\ issued[1].api = "getResults"
  /\ issued[1].query.page = page
  /\ SentCode(issued[1]) = code
  /\ issued[2].api = "getOverallPerformance"
  /\ perfCalls # << >>
  /\ perfCalls[Len(perfCalls)].phase = "overall"
  /\ perfCalls[Len(perfCalls)].code = code

\* C3: when a run call resolves, the page issues one results request for page 1
\* and one performance fetch, both with the trimmed text the filter input held
\* when the run was started (no code when that text is blank).
C3_RunRefreshUsesFilterAtRunStart ==
  lastEvent.type = "handleRun.resolved"
    => RefreshedWith(1, TrimmedCode(lastEvent.call.codeFilter))

C3_Witness ==
  /\ lastEvent.type = "handleRun.resolved"
  /\ lastEvent.call.codeFilter = <<" ", "A", " ">>
  /\ SentCode(issued[1]) = <<"A">>
  /\ perfCalls[Len(perfCalls)].code = <<"A">>

\* C4 as stated: every run call that settles, resolved or rejected, is followed
\* by a results request and a performance fetch with the current filter.
C4_RefreshAfterEverySettledRun ==
  lastEvent.type \in {"handleRun.resolved", "handleRun.rejected"}
    => RefreshedWith(1, TrimmedCode(codeFilter))

\* C4 as amended: a run call that resolves is followed by a results request for
\* page 1 and a performance fetch with the current filter; a run call that
\* rejects is followed by no request at all.
C4_RefreshOnlyAfterResolvedRun ==
  /\ lastEvent.type = "handleRun.resolved" => RefreshedWith(1, TrimmedCode(codeFilter))
  /\ lastEvent.type = "handleRun.rejected" => issued = << >>

C4_Witness ==
  /\ lastEvent.type = "handleRun.rejected"
  /\ issued = << >>
  /\ runError # null
  /\ resultsCalls = << >>
  /\ perfCalls = << >>

\* C5: a page change to page p issues a results request for page p whose code
\* is the code of the active filter, the one the last filter submission or run
\* refresh sent (none after the mount fetch only).
C5_PageChangeKeepsActiveFilter ==
  lastEvent.type = "handlePageChange"
    => /\ Len(issued) = 1
       /\ issued[1].api = "getResults"
       /\ issued[1].query.page = lastEvent.page
       /\ SentCode(issued[1]) = activeCode

\* C6: when the results fetch a handler started fails, nothing else having
\* touched the results view meanwhile, results, totalResults and currentPage
\* are what they were before that handler ran.
C6_FailedResultsFetchLeavesView ==
  (/\ lastEvent.type = "fetchResults.rejected"
   /\ lastEvent.call.latest
   /\ lastEvent.quiet)
  => view = prevView

\* C7 as stated: when the performance fetch a handler started fails, in its
\* overall request or in its per-code request, nothing else having touched the
\* performance state meanwhile, overallPerf and stockPerf are what they were
\* before the fetch.
C7_FailedPerfFetchLeavesPerf ==
  (/\ lastEvent.type \in {"fetchPerformance.overall.rejected",
                          "fetchPerformance.stock.rejected"}
   /\ lastEvent.call.latest
   /\ lastEvent.quiet)
  => perf = prevPerf

\* C7 as amended: when the overall request rejects, overallPerf and stockPerf
\* are what they were before the fetch; when the per-code request rejects,
\* stockPerf is what it was before the fetch and overallPerf is the overall
\* metrics this fetch has received.
C7_FailedPerfFetchKeepsWhatItHadSet ==
  /\ (/\ lastEvent.type = "fetchPerformance.overall.rejected"
      /\ lastEvent.call.latest
      /\ lastEvent.quiet)
     => perf = prevPerf
  /\ (/\ lastEvent.type = "fetchPerformance.stock.rejected"
      /\ lastEvent.call.latest
      /\ lastEvent.quiet)
     => /\ stockPerf = prevPerf[2]
        /\ overallPerf = lastEvent.call.got

C7_Witness ==
  /\ lastEvent.type = "fetchPerformance.stock.rejected"
  /\ lastEvent.call.latest
  /\ lastEvent.quiet
  /\ prevPerf[1] = null
  /\ overallPerf # null
  /\ stockPerf = prevPerf[2]

\* C8: the response of a results request that resolves after a later request
\* has resolved is put on display all the same: results, totalResults and
\* currentPage are those of the earlier request.
C8_OvertakenResponseIsDisplayed ==
  (lastEvent.type = "fetchResults.resolved" /\ lastEvent.call.overtaken)
    => /\ results = lastEvent.response.items
       /\ totalResults = lastEvent.response.total
       /\ currentPage = lastEvent.response.page

\* the race: the mount request and the request of a filter on code A overlap,
\* the filter's resolves first, and the rows on display are the unfiltered ones
C8_Witness ==
  /\ lastEvent.type = "fetchResults.resolved"
  /\ lastEvent.call.overtaken
  /\ ~lastEvent.call.latest
  /\ resultsCalls = << >>
  /\ "code" \notin DOMAIN lastEvent.call.query
  /\ activeCode = <<"A">>
  /\ results = lastEvent.response.items
  /\ results # << >>
  /\ totalResults = MaxTotal
  /\ currentPage = 1

\* C9 as stated: while a request of a family is unresolved, the family's
\* loading flag is true.
C9_LoadingWhileAnyRequestHangs ==
  /\ resultsCalls # << >> => isLoadingResults
  /\ perfCalls # << >> => isLoadingPerf

\* C9 as amended: while the most recently started fetch of a family is
\* unresolved and no other fetch of the family has settled since it started,
\* the family's loading flag is true.
C9_LoadingUntilAnotherFetchSettles ==
  /\ (resultsQuiet /\ \E i \in 1..Len(resultsCalls) : resultsCalls[i].latest)
       => isLoadingResults
  /\ (perfQuiet /\ \E i \in 1..Len(perfCalls) : perfCalls[i].latest)
       => isLoadingPerf

C9_Witness ==
  /\ Len(resultsCalls) = 2
  /\ resultsQuiet
  /\ isLoadingResults
  /\ Len(perfCalls) = 2
  /\ perfQuiet
  /\ perfCalls[2].phase = "stock"
  /\ isLoadingPerf

\* C10: while a run is under way runResult and runError are both null; when
\* the run call settles exactly one of them is set (runResult when it resolved,
\* runError when it rejected) and isRunning is false; the two are never both set.
C10_RunStateMachine ==
  /\ isRunning => (runResult = null /\ runError = null)
  /\ lastEvent.type = "handleRun.resolved"
       => (runResult # null /\ runError = null /\ ~isRunning)
  /\ lastEvent.type = "handleRun.rejected"
       => (runError # null /\ runResult = null /\ ~isRunning)
  /\ ~(runResult # null /\ runError # null)

C10_Witness ==
  /\ lastEvent.type = "handleRun.rejected"
  /\ runError = [string |-> "Backtest failed"]
  /\ runResult = null
  /\ ~isRunning
  /\ userEvents = 2

\* C11: a filter submission (Filter button or Enter) sets currentPage to 1 and
\* issues a results request for page 1 with the trimmed text and the overall
\* request of a performance fetch for the trimmed text; a performance fetch
\* issues its per-code request, for its code, only when its code is not empty
\* (and then only once its overall request has resolved).
C11_FilterSubmitRefetchesBoth ==
  /\ lastEvent.type = "handleFilter"
       => /\ currentPage = 1
          /\ RefreshedWith(1, TrimmedCode(lastEvent.codeFilter))
  /\ lastEvent.type = "fetchPerformance.overall.resolved"
       => issued = IF lastEvent.call.code = undefined
                     THEN << >>
                     ELSE << [api |-> "getStockPerformance",
                              path |-> EncodeURIComponent(lastEvent.call.code)] >>
  /\ lastEvent.type = "fetchPerformance.overall.rejected" => issued = << >>

C11_Witness ==
  /\ lastEvent.type = "handleFilter"
  /\ lastEvent.codeFilter = <<" ", "A", " ">>
  /\ currentPage = 1
  /\ SentCode(issued[1]) = <<"A">>
  /\ perfCalls[Len(perfCalls)].code = <<"A">>

\* C12: the initial-load effect issues a results request for page 1 without a
\* code and the overall request of a performance fetch without a code; both
\* are then in flight and either can settle next; the performance fetch of the
\* mount issues no per-code request.
C12_MountFetchesBothConcurrently ==
  /\ lastEvent.type = "mount"
       => /\ RefreshedWith(1, undefined)
          /\ Len(resultsCalls) = 1
          /\ Len(perfCalls) = 1
          /\ ENABLED (\E http \in ResultsHttp(resultsCalls[1].query) :
                        FetchResultsSettle(1, http))
          /\ ENABLED (\E http \in OverallHttp : FetchPerformanceOverall(1, http))
  /\ (mounted /\ userEvents = 0 /\ runCalls = << >> /\ runResult = null)
       => /\ resultsCalls # << >>
            => ENABLED (\E http \in ResultsHttp(resultsCalls[1].query) :
                          FetchResultsSettle(1, http))
          /\ perfCalls # << >>
            => /\ perfCalls[1].phase = "overall"
               /\ ENABLED (\E http \in OverallHttp : FetchPerformanceOverall(1, http))
          /\ lastEvent.type = "fetchPerformance.overall.resolved"
            => (issued = << >> /\ perfCalls = << >>)

\* the performance fetch of the mount is over while its results request is
\* still in flight
C12_Witness ==
  /\ userEvents = 0
  /\ lastEvent.type = "fetchPerformance.overall.resolved"
  /\ lastEvent.call.code = undefined
  /\ perfCalls = << >>
  /\ Len(resultsCalls) = 1
  /\ "code" \notin DOMAIN resultsCalls[1].query
  /\ resultsCalls[1].query.page = 1
  /\ overallPerf # null

\* is property k of params a non-empty string?
NonEmptyString(params, k) ==
  k \in DOMAIN params /\ params[k] # undefined /\ Len(params[k]) > 0

\* C13: getResults sends the page of params, 1 when params has none, the limit
\* of params, 20 when params has none, and a code exactly when the code of
\* params is a non-empty string, that code; it sends nothing else.
C13_GetResultsDefaults ==
  lastEvent.type = "getResults"
    => LET params == lastEvent.params
           query == issued[1].query
       IN /\ Len(issued) = 1
          /\ issued[1].api = "getResults"
          /\ query.page = IF "page" \in DOMAIN params THEN params.page ELSE 1
          /\ query.limit = IF "limit" \in DOMAIN params THEN params.limit ELSE 20
          /\ "code" \in DOMAIN query <=> NonEmptyString(params, "code")
          /\ "code" \in DOMAIN query => query.code = params.code
          /\ DOMAIN query \subseteq {"page", "limit", "code"}

\* getResults({})
C13_Witness ==
  /\ lastEvent.type = "getResults"
  /\ DOMAIN lastEvent.params = {}
  /\ issued[1].query = [page |-> 1, limit |-> 20]

\* the steps in which a results or performance fetch ends in its catch clause
FetchFailures ==
  {"fetchResults.rejected", "fetchPerformance.overall.rejected",
   "fetchPerformance.stock.rejected"}

\* C14: runError is null at first, a step sets it only when a run call rejects,
\* and starting a run or a run call resolving leaves it null, so runError is
\* set only if the most recent run call rejected; a step in which a results or
\* performance fetch fails changes neither runError nor runResult.
C14_OnlyRunFailureSetsRunError ==
  /\ runError = null
  /\ [][/\ (runError' # null /\ runError' # runError)
             => lastEvent'.type = "handleRun.rejected"
        /\ lastEvent'.type \in {"handleRun", "handleRun.resolved"}
             => runError' = null
        /\ lastEvent'.type \in FetchFailures
             => (runError' = runError /\ runResult' = runResult)]_vars

\* a refresh fetch started after a successful run fails
C14_Witness ==
  /\ lastEvent.type = "fetchResults.rejected"
  /\ runResult # null
  /\ runError = null
  /\ ~isRunning
  /\ activeCode = undefined
  /\ userEvents = 1

\* C15: the step of a page change issues one request, the results request for
\* the page asked for, and leaves overallPerf, stockPerf, isLoadingPerf,
\* runResult, runError, isRunning and the performance fetches in flight as
\* they are.
C15_PageChangeRefetchesResultsOnly ==
  [][lastEvent'.type = "handlePageChange"
       => /\ Len(issued') = 1
          /\ issued'[1].api = "getResults"
          /\ issued'[1].query.page = lastEvent'.page
          /\ UNCHANGED <<overallPerf, stockPerf, isLoadingPerf, runResult, runError,
                         isRunning, perfCalls, runCalls>>]_vars

\* a page change while the performance fetch of the mount is in flight
C15_Witness ==
  /\ lastEvent.type = "handlePageChange"
  /\ lastEvent.page = 2
  /\ Len(issued) = 1
  /\ issued[1].query.page = 2
  /\ isLoadingPerf
  /\ Len(perfCalls) = 1
  /\ isLoadingResults

\* has the caller of run given property k of params a value?  (only code, the
\* property the page passes, is ever given as undefined)
Provided(params, k) ==
  k \in DOMAIN params /\ (k = "code" => params[k] # undefined)

\* the fields of run's request body and the parameters they come from
RunFields ==
  { <<"code", "code">>, <<"force", "force">>,
    <<"eval_window_days", "evalWindowDays">>, <<"limit", "limit">> }

\* C16 as stated: the body run sends has each of code, force, eval_window_days and limit
\* exactly when the caller gave the parameter a value, also the values false
\* and 0, and the field is the value given.
C16_RunSendsWhatWasProvided ==
  lastEvent.type = "run"
    => LET params == lastEvent.params
           body == issued[1].body
       IN \A f \in RunFields :
            /\ f[1] \in DOMAIN body <=> Provided(params, f[2])
            /\ f[1] \in DOMAIN body => body[f[1]] = params[f[2]]

\* is the value the caller gave property k of params one that JavaScript takes
\* for true: a non-empty string, true, a number other than 0?
GivenTruthy(params, k) ==
  /\ k \in DOMAIN params
  /\ CASE k = "code" -> params[k] \notin {undefined, << >>}
       [] k = "force" -> params[k] = TRUE
       [] OTHER -> params[k] # 0

\* C16 as amended: the body run sends has each of code, force, eval_window_days
\* and limit exactly when the parameter was given a value JavaScript takes for
\* true, and the field is the value given; a parameter left out, an empty or
\* undefined code, force = false, evalWindowDays = 0 and limit = 0 put no field
\* in the body.
C16_RunSendsTruthyParams ==
  lastEvent.type = "run"
    => LET params == lastEvent.params
           body == issued[1].body
       IN /\ Len(issued) = 1
          /\ \A f \in RunFields :
               /\ f[1] \in DOMAIN body <=> GivenTruthy(params, f[2])
               /\ f[1] \in DOMAIN body => body[f[1]] = params[f[2]]
          /\ DOMAIN body \subseteq {f[1] : f \in RunFields}

\* run({code: 'A', force: false, evalWindowDays: 5, limit: 0})
C16_Witness ==
  /\ lastEvent.type = "run"
  /\ lastEvent.params = [code |-> <<"A">>, force |-> FALSE, evalWindowDays |-> 5,
                         limit |-> 0]
  /\ issued[1].body = [code |-> <<"A">>, eval_window_days |-> 5]

\* C17: at most one run call is unresolved at any time, and isRunning is true
\* exactly while one is.
C17_OneRunInFlight ==
  /\ Len(runCalls) <= 1
  /\ isRunning <=> runCalls # << >>

\* the user acts twice while a run call is unresolved
C17_Witness ==
  /\ Len(runCalls) = 1
  /\ isRunning
  /\ userEvents = 2
  /\ lastEvent.type = "handleFilter"

\* C18: a step that submits a filter (the Filter button or Enter in the filter
\* input) starts only when isLoadingResults is false and no results request is
\* in flight.
C18_NoFilterSubmitWhileLoading ==
  [][lastEvent'.type = "handleFilter"
       => (~isLoadingResults /\ resultsCalls = << >>)]_vars

\* C19 as stated: when no performance request is in flight, stockPerf is null
\* if the performance fetch issued last carried no code, and otherwise is null
\* or the metrics of the code that fetch carried.
C19_StockCardOfLatestFetch ==
  (mounted /\ perfCalls = << >>)
    => \/ stockPerf = null
       \/ (activeCode # undefined /\ stockPerf.code = activeCode)

\* C19 as amended: stockPerf is null at first and changes only when a request
\* of a performance fetch resolves: a fetch without a code whose overall
\* request resolves sets it to null, a fetch whose per-code request resolves
\* sets it to null or to the metrics of that fetch's code; every other step,
\* a request of a performance fetch rejecting among them, leaves it as it was.
\* The card is that of the fetch that resolved last, whichever was issued last.
C19_StockCardOfLastResolvedFetch ==
  /\ stockPerf = null
  /\ [][CASE lastEvent'.type = "fetchPerformance.overall.resolved"
               -> IF lastEvent'.call.code = undefined
                    THEN stockPerf' = null
                    ELSE stockPerf' = stockPerf
          [] lastEvent'.type = "fetchPerformance.stock.resolved"
               -> \/ stockPerf' = null
                  \/ stockPerf'.code = lastEvent'.call.code
          [] OTHER -> stockPerf' = stockPerf]_vars

\* no request is in flight, the fetch issued last was for code B and its
\* per-code request rejected, and the card still shows the metrics of code A
C19_Witness ==
  /\ perfCalls = << >>
  /\ lastEvent.type = "fetchPerformance.stock.rejected"
  /\ lastEvent.call.code = <<"B">>
  /\ lastEvent.call.latest
  /\ activeCode = <<"B">>
  /\ stockPerf # null
  /\ stockPerf.code = <<"A">>

\* C20: when every request is answered and the user acts finitely often, the
\* page reaches a state from which isRunning, isLoadingResults and
\* isLoadingPerf are false for good.
C20_EventuallyQuiescent ==
  <>[](~isRunning /\ ~isLoadingResults /\ ~isLoadingPerf)

\* the user has stopped, every request has been answered, the run's refresh
\* failed in its results request, and the three flags are false
C20_Witness ==
  /\ userEvents = MaxUserEvents
  /\ resultsCalls = << >>
  /\ perfCalls = << >>
  /\ runCalls = << >>
  /\ lastEvent.type = "fetchResults.rejected"
  /\ lastEvent.call.latest
  /\ runResult # null
  /\ ~isRunning
  /\ ~isLoadingResults
  /\ ~isLoadingPerf

====
